---------------------------- MODULE Spec2Model ----------------------------
(***************************************************************************)
(* Paste Transform (src/main.ts): the settings blob and its migration, the *)
(* rule compiler, the transform engine and the settings tab's handlers.    *)
(*                                                                         *)
(* A JavaScript string is a sequence of one-character strings.  A value    *)
(* whose JavaScript type the code inspects (typeof, Array.isArray,         *)
(* truthiness) is a record tagged with its kind.                           *)
(***************************************************************************)
EXTENDS Integers, Sequences, FiniteSets, TLC

VARIABLES
    data,       \* the persisted blob (what loadData returns), Null if none
    settings,   \* this.settings
    rules,      \* this.rules
    nextId,     \* the number of identifiers uid has handed out, plus one
    phase,      \* where the plugin, or the function under check, stands
    raisedErr,  \* TRUE once a handler has thrown
    pending,    \* the settings tab's pending link selection
    shown,      \* the settings tab's DOM: the <li> items of the two columns,
                \* their link checkboxes, the rows of the links panel and
                \* the value the Ativo toggle shows
    drawn,      \* the links whose split button drawLines has drawn
    drawTimers, \* setTimeout(drawLines, 30) callbacks not yet run
    debTimer,   \* TRUE while saveDebounced's 250 ms timer is armed
    tasks,      \* handlers suspended at `await this.plugin.saveSettings()`,
                \* counted by what they do when they resume
    applied,    \* the applyRules call the latest step made, Null if none
    event,      \* the clipboard event the latest step handled, Null if none
    handled     \* the number of user events handled so far, selecting an
                \* item for a link aside

vars == << data, settings, rules, nextId, phase, raisedErr, pending, shown,
           drawn, drawTimers, debTimer, tasks, applied, event, handled >>

(***************************************************************************)
(* Bounds of the model.                                                    *)
(***************************************************************************)
MaxLegacy == 2      \* longest legacy pattern / replacer / flag array drawn
MaxItems == 2       \* most patterns (replacers) of a current-shaped blob drawn
MaxPatLen == 2      \* longest pattern text enumerated for the compiler
MaxSrcLen == 3      \* longest input text enumerated for applyRules
MaxRules == 3       \* longest compiled rule list enumerated for applyRules
MaxHandled == 2     \* user events handled per behaviour

\* F applied to the value of x, x evaluated once.
Bind(x, F(_)) == CHOOSE y \in {F(v) : v \in {x}} : TRUE

Min(a, b) == IF a < b THEN a ELSE b

(***************************************************************************)
(* JavaScript values.                                                      *)
(***************************************************************************)
Undefined == [kind |-> "undefined"]
Null == [kind |-> "null"]
Bool(b) == [kind |-> "boolean", val |-> b]
Str(t) == [kind |-> "string", val |-> t]
Num(n) == [kind |-> "number", val |-> n]
Arr(xs) == [kind |-> "array", items |-> xs]
\* a PatternItem / ReplacerItem: { id, text }
Item(id, text) == [kind |-> "object", id |-> id, text |-> text]

TypeOf(v) ==
    IF v.kind \in {"null", "array", "object"} THEN "object" ELSE v.kind

IsArray(v) == v.kind = "array"

\* An identifier.  NoId is a missing (or empty) id: falsy in `!p.id`.
NoId == [prefix |-> "", n |-> 0]

\* uid(prefix): `${prefix}-${Date.now()}-${Math.random()}`, the n-th value
\* handed out; two calls never return the same identifier.
uid(prefix, n) == [prefix |-> prefix, n |-> n]

LinkItem(id, pId, rId, enabled, comment) ==
    [id |-> id, patternId |-> pId, replacerId |-> rId,
     enabled |-> enabled, comment |-> comment]

(***************************************************************************)
(* DEFAULT_SETTINGS.  A code point outside ASCII is written "U+XXXX".  The *)
(* eight identifiers are the first eight uid hands out, when the module is *)
(* loaded.  debugMode only guards a console.log and is left out.           *)
(***************************************************************************)
DefaultPatternTexts ==
    <<
        << "^", "h", "t", "t", "p", "s", ":", "/", "/", "g", "i", "t", "h",
           "u", "b", ".", "c", "o", "m", "/", "[", "^", "/", "]", "+", "/",
           "(", "[", "^", "/", "]", "+", ")", "/", "i", "s", "s", "u", "e",
           "s", "/", "(", "\\", "d", "+", ")", "$" >>,
        << "^", "h", "t", "t", "p", "s", ":", "/", "/", "g", "i", "t", "h",
           "u", "b", ".", "c", "o", "m", "/", "[", "^", "/", "]", "+", "/",
           "(", "[", "^", "/", "]", "+", ")", "/", "p", "u", "l", "l", "/",
           "(", "\\", "d", "+", ")", "$" >>,
        << "^", "h", "t", "t", "p", "s", ":", "/", "/", "g", "i", "t", "h",
           "u", "b", ".", "c", "o", "m", "/", "[", "^", "/", "]", "+", "/",
           "(", "[", "^", "/", "]", "+", ")", "$" >>,
        << "^", "h", "t", "t", "p", "s", ":", "/", "/", "\\", "w", "+",
           ".", "w", "i", "k", "i", "p", "e", "d", "i", "a", ".", "o", "r",
           "g", "/", "w", "i", "k", "i", "/", "(", "[", "^", "\\", "s",
           "]", "+", ")", "$" >>
    >>

DefaultReplacerTexts ==
    <<
        << "[", "U+1F408", "U+200D", "U+2B1B", "U+1F528", " ", "$", "1",
           "#", "$", "2", "]", "(", "$", "&", ")" >>,
        << "[", "U+1F408", "U+200D", "U+2B1B", "U+1F6E0", "U+FE0E", " ",
           "$", "1", "#", "$", "2", "]", "(", "$", "&", ")" >>,
        << "[", "U+1F408", "U+200D", "U+2B1B", " ", "$", "1", "]", "(",
           "$", "&", ")" >>,
        << "[", "U+1F4D6", " ", "$", "1", "]", "(", "$", "&", ")" >>
    >>

DEFAULT_SETTINGS ==
    [patterns |-> Arr([i \in 1..4 |->
                         Item(uid("p", i), Str(DefaultPatternTexts[i]))]),
     replacers |-> Arr([i \in 1..4 |->
                          Item(uid("r", 4 + i), Str(DefaultReplacerTexts[i]))]),
     links |-> Arr(<< >>),
     enabled |-> Undefined,
     comments |-> Undefined,
     settingsFormatVersion |-> Num(300),
     active |-> Bool(TRUE)]

FirstFreeId == 9

SettingsFields == DOMAIN DEFAULT_SETTINGS

\* Object.assign({}, DEFAULT_SETTINGS, loaded): a property the loaded blob
\* has replaces the default; null (no saved data) contributes nothing.
objectAssign(loaded) ==
    IF loaded = Null THEN DEFAULT_SETTINGS
    ELSE [f \in SettingsFields |->
            IF loaded[f] = Undefined THEN DEFAULT_SETTINGS[f] ELSE loaded[f]]

(***************************************************************************)
(* Migration.  Each function returns the settings it leaves behind, the    *)
(* identifier counter, and whether it threw.                               *)
(***************************************************************************)
Outcome(s, n, raised) == [s |-> s, n |-> n, raised |-> raised]

looksNew(s) ==
    /\ IsArray(s.patterns)
    /\ Len(s.patterns.items) > 0
    /\ TypeOf(s.patterns.items[1]) = "object"
    /\ IsArray(s.replacers)

\* arr.forEach(p => { if (!p.id) p.id = uid(prefix); }) from index i on:
\* reading p.id of null throws and leaves the rest untouched.
RECURSIVE backfillIds(_, _, _, _)
backfillIds(xs, prefix, n, i) ==
    IF i > Len(xs) THEN [items |-> xs, n |-> n, raised |-> FALSE]
    ELSE IF xs[i].kind = "null" THEN [items |-> xs, n |-> n, raised |-> TRUE]
    ELSE IF xs[i].id = NoId
         THEN backfillIds([xs EXCEPT ![i] = Item(uid(prefix, n), xs[i].text)],
                          prefix, n + 1, i + 1)
         ELSE backfillIds(xs, prefix, n, i + 1)

\* old.map(t => ({ id: uid(prefix), text: t }))
wrapAll(old, prefix, n) ==
    [i \in 1..Len(old) |-> Item(uid(prefix, n + i - 1), old[i])]

\* legacyEnabled without its typeof test: `!!s.enabled[i]` alone.
legacyEnabledUntyped(s, i) ==
    IF IsArray(s.enabled) /\ i <= Len(s.enabled.items)
    THEN s.enabled.items[i].kind = "boolean" /\ s.enabled.items[i].val
    ELSE TRUE

legacyEnabled(s, i) ==
    IF IsArray(s.enabled) /\ i <= Len(s.enabled.items)
       /\ TypeOf(s.enabled.items[i]) = "boolean"
    THEN s.enabled.items[i].val ELSE TRUE

legacyComment(s, i) ==
    IF IsArray(s.comments) /\ i <= Len(s.comments.items)
       /\ TypeOf(s.comments.items[i]) = "string"
    THEN s.comments.items[i].val ELSE << >>

\* A legacy branch that wraps only the first min(|patterns|, |replacers|)
\* entries of each array.
migrateTruncated(s, n0) ==
    LET oldPatterns == IF IsArray(s.patterns) THEN s.patterns.items ELSE << >>
        oldReplacers == IF IsArray(s.replacers) THEN s.replacers.items ELSE << >>
        n == Min(Len(oldPatterns), Len(oldReplacers))
        patterns == wrapAll(SubSeq(oldPatterns, 1, n), "p", n0)
        replacers == wrapAll(SubSeq(oldReplacers, 1, n), "r", n0 + n)
        links == [i \in 1..n |->
                    LinkItem(uid("link", n0 + 2 * n + i - 1), patterns[i].id,
                             replacers[i].id, legacyEnabled(s, i),
                             legacyComment(s, i))]
    IN  Outcome([s EXCEPT !.patterns = Arr(patterns),
                          !.replacers = Arr(replacers),
                          !.links = Arr(links),
                          !.settingsFormatVersion = Num(300),
                          !.enabled = Undefined,
                          !.comments = Undefined],
                n0 + 3 * n, FALSE)

migrateLegacy(s, n0) ==
    LET oldPatterns == IF IsArray(s.patterns) THEN s.patterns.items ELSE << >>
        oldReplacers == IF IsArray(s.replacers) THEN s.replacers.items ELSE << >>
        patterns == wrapAll(oldPatterns, "p", n0)
        n1 == n0 + Len(oldPatterns)
        replacers == wrapAll(oldReplacers, "r", n1)
        n2 == n1 + Len(oldReplacers)
        n == Min(Len(patterns), Len(replacers))
        links == [i \in 1..n |->
                    LinkItem(uid("link", n2 + i - 1), patterns[i].id,
                             replacers[i].id, legacyEnabled(s, i),
                             legacyComment(s, i))]
    IN  Outcome([s EXCEPT !.patterns = Arr(patterns),
                          !.replacers = Arr(replacers),
                          !.links = Arr(links),
                          !.settingsFormatVersion = Num(300),
                          !.enabled = Undefined,
                          !.comments = Undefined],
                n2 + n, FALSE)

migrateNew(s, n0) ==
    LET bp == backfillIds(s.patterns.items, "p", n0, 1)
        s1 == [s EXCEPT !.patterns = Arr(bp.items)]
        br == backfillIds(s.replacers.items, "r", bp.n, 1)
        s2 == [s1 EXCEPT !.replacers = Arr(br.items)]
    IN  IF bp.raised THEN Outcome(s1, bp.n, TRUE)
        ELSE IF br.raised THEN Outcome(s2, br.n, TRUE)
        ELSE Outcome([s2 EXCEPT
                        !.links = IF IsArray(s.links) THEN s.links ELSE Arr(<< >>),
                        !.settingsFormatVersion = Num(300)],
                     br.n, FALSE)

migrateIfNeeded(s, n0) ==
    IF looksNew(s) THEN migrateNew(s, n0) ELSE migrateLegacy(s, n0)

\* An ensure-defaults pass without its test of s.links: the index-aligned
\* links are pushed onto the links there are.
pushDefaults(s, n0) ==
    LET ps == s.patterns.items
        rs == s.replacers.items
        n == Min(Len(ps), Len(rs))
    IN  Outcome([s EXCEPT !.links =
                   Arr((IF IsArray(s.links) THEN s.links.items ELSE << >>) \o
                       [i \in 1..n |->
                          LinkItem(uid("link", n0 + i - 1), ps[i].id,
                                   rs[i].id, TRUE, << >>)])],
                n0 + n, FALSE)

normalizeDefaultsIfEmpty(s, n0) ==
    IF ~IsArray(s.links) \/ Len(s.links.items) = 0
    THEN LET ps == s.patterns.items
             rs == s.replacers.items
             n == Min(Len(ps), Len(rs))
         IN  Outcome([s EXCEPT !.links =
                        Arr([i \in 1..n |->
                               LinkItem(uid("link", n0 + i - 1), ps[i].id,
                                        rs[i].id, TRUE, << >>)])],
                     n0 + n, FALSE)
    ELSE Outcome(s, n0, FALSE)

(***************************************************************************)
(* Regular expressions: what `new RegExp(text, 'g')`, String.search and    *)
(* String.replace do, for the fragment of the pattern language made of     *)
(* literals, `.`, `\d \w \s` and escaped literals, `[...]` classes without *)
(* ranges, `^ $`, groups `( )` and `(?: )`, `|`, and the quantifiers       *)
(* `* + ?` (greedy or lazy).                                               *)
(***************************************************************************)
Digits == {"0", "1", "2", "3", "4", "5", "6", "7", "8", "9"}
Letters ==
    {"a", "b", "c", "d", "e", "f", "g", "h", "i", "j", "k", "l", "m", "n",
     "o", "p", "q", "r", "s", "t", "u", "v", "w", "x", "y", "z", "A", "B",
     "C", "D", "E", "F", "G", "H", "I", "J", "K", "L", "M", "N", "O", "P",
     "Q", "R", "S", "T", "U", "V", "W", "X", "Y", "Z"}
WordChars == Letters \cup Digits \cup {"_"}
SpaceChars == {" ", "\t", "\n", "\r"}
LineTerminators == {"\n", "\r"}
QuantChars == {"*", "+", "?"}

ParseFail == [ok |-> FALSE]
Parsed(node, pos, g) == [ok |-> TRUE, node |-> node, pos |-> pos, g |-> g]

\* One class item or escaped atom after a backslash at t[i].
escapeNode(c) ==
    IF c \in {"d", "w", "s"} THEN [op |-> "esc", c |-> c, neg |-> FALSE]
    ELSE IF c = "D" THEN [op |-> "esc", c |-> "d", neg |-> TRUE]
    ELSE IF c = "W" THEN [op |-> "esc", c |-> "w", neg |-> TRUE]
    ELSE IF c = "S" THEN [op |-> "esc", c |-> "s", neg |-> TRUE]
    ELSE [op |-> "char", c |-> c]

\* The items of a class from t[i] up to its closing bracket.
RECURSIVE parseClassItems(_, _, _)
parseClassItems(t, i, acc) ==
    IF i > Len(t) THEN ParseFail
    ELSE IF t[i] = "]" THEN [ok |-> TRUE, items |-> acc, pos |-> i + 1]
    ELSE IF t[i] = "\\"
         THEN IF i + 1 > Len(t) THEN ParseFail
              ELSE parseClassItems(t, i + 2, acc \cup {escapeNode(t[i + 1])})
         ELSE parseClassItems(t, i + 1, acc \cup {[op |-> "char", c |-> t[i]]})

RECURSIVE parseDisjunction(_, _, _), parseAlternative(_, _, _),
          parseTerm(_, _, _), parseAtom(_, _, _)

parseGroup(t, i, g, capturing) ==
    Bind(IF capturing THEN parseDisjunction(t, i + 1, g + 1)
         ELSE parseDisjunction(t, i + 3, g),
         LAMBDA body :
           IF ~body.ok THEN ParseFail
           ELSE IF body.pos > Len(t) \/ t[body.pos] # ")" THEN ParseFail
           ELSE IF capturing
                THEN Parsed([op |-> "group", idx |-> g + 1, body |-> body.node],
                            body.pos + 1, body.g)
                ELSE Parsed(body.node, body.pos + 1, body.g))

parseClass(t, i, g, neg) ==
    Bind(parseClassItems(t, IF neg THEN i + 2 ELSE i + 1, {}),
         LAMBDA its :
           IF ~its.ok THEN ParseFail
           ELSE Parsed([op |-> "class", neg |-> neg, items |-> its.items],
                       its.pos, g))

parseAtom(t, i, g) ==
    IF t[i] = "("
    THEN parseGroup(t, i, g,
                    ~(i + 2 <= Len(t) /\ t[i + 1] = "?" /\ t[i + 2] = ":"))
    ELSE IF t[i] = "." THEN Parsed([op |-> "any"], i + 1, g)
    ELSE IF t[i] = "\\"
         THEN IF i + 1 > Len(t) THEN ParseFail
              ELSE Parsed(escapeNode(t[i + 1]), i + 2, g)
    ELSE IF t[i] = "["
         THEN parseClass(t, i, g, i + 1 <= Len(t) /\ t[i + 1] = "^")
    ELSE Parsed([op |-> "char", c |-> t[i]], i + 1, g)

parseTerm(t, i, g) ==
    IF t[i] = "^" THEN Parsed([op |-> "bol"], i + 1, g)
    ELSE IF t[i] = "$" THEN Parsed([op |-> "eol"], i + 1, g)
    ELSE IF t[i] \in QuantChars THEN ParseFail       \* nothing to repeat
    ELSE Bind(parseAtom(t, i, g), LAMBDA a :
           IF ~a.ok THEN ParseFail
           ELSE IF a.pos <= Len(t) /\ t[a.pos] \in QuantChars
                THEN LET lazy == a.pos + 1 <= Len(t) /\ t[a.pos + 1] = "?"
                     IN  Parsed([op |-> "quant", q |-> t[a.pos], lazy |-> lazy,
                                 body |-> a.node, lo |-> g + 1, hi |-> a.g],
                                IF lazy THEN a.pos + 2 ELSE a.pos + 1, a.g)
                ELSE a)

\* The terms items[lo..hi] one after the other.  Matching a sequence does
\* not depend on how its terms are bracketed, and they are bracketed in
\* halves to keep the matcher's recursion shallow.
RECURSIVE sequence(_, _, _)
sequence(items, lo, hi) ==
    IF lo > hi THEN [op |-> "empty"]
    ELSE IF lo = hi THEN items[lo]
    ELSE [op |-> "seq", l |-> sequence(items, lo, (lo + hi) \div 2),
          r |-> sequence(items, (lo + hi) \div 2 + 1, hi)]

\* The characters with a meaning of their own at the start of a term.
SyntaxChars == {"^", "$", "*", "+", "?", "(", ")", "|", ".", "\\", "["}

\* The number of characters from t[i] on that are literal terms of their
\* own: not syntax characters and not followed by a quantifier.  Such a
\* run is kept as one node: it matches the same texts as its characters
\* one after the other.
literalRun(t, i) ==
    LET plain(k) == /\ t[k] \notin SyntaxChars
                    /\ ~(k + 1 <= Len(t) /\ t[k + 1] \in QuantChars)
    IN  CHOOSE n \in 0..(Len(t) - i + 1) :
           /\ \A k \in i..(i + n - 1) : plain(k)
           /\ i + n > Len(t) \/ ~plain(i + n)

\* The terms of an alternative from t[i] on, after the terms acc.
RECURSIVE parseTerms(_, _, _, _)
parseTerms(t, i, g, acc) ==
    IF i > Len(t) \/ t[i] \in {"|", ")"}
    THEN Parsed(sequence(acc, 1, Len(acc)), i, g)
    ELSE Bind(IF literalRun(t, i) > 0
              THEN Parsed([op |-> "lit",
                           cs |-> SubSeq(t, i, i + literalRun(t, i) - 1)],
                          i + literalRun(t, i), g)
              ELSE parseTerm(t, i, g),
              LAMBDA term :
                IF ~term.ok THEN ParseFail
                ELSE parseTerms(t, term.pos, term.g, Append(acc, term.node)))

parseAlternative(t, i, g) == parseTerms(t, i, g, << >>)

parseDisjunction(t, i, g) ==
    Bind(parseAlternative(t, i, g), LAMBDA a :
      IF ~a.ok THEN ParseFail
      ELSE IF a.pos <= Len(t) /\ t[a.pos] = "|"
           THEN Bind(parseDisjunction(t, a.pos + 1, a.g), LAMBDA r :
                  IF ~r.ok THEN ParseFail
                  ELSE Parsed([op |-> "alt", l |-> a.node, r |-> r.node],
                              r.pos, r.g))
           ELSE a)

\* new RegExp(text, 'g'): ok = FALSE stands for the SyntaxError thrown.
\* A `)` left over at the top level is unmatched.
RegExpOf(text) ==
    Bind(text, LAMBDA t :
      Bind(parseDisjunction(t, 1, 0), LAMBDA d :
        IF d.ok /\ d.pos > Len(t)
        THEN [ok |-> TRUE, node |-> d.node, ngroups |-> d.g]
        ELSE [ok |-> FALSE]))

\* A match in progress: the next position (1-based) and the captures so
\* far, each << >> (undefined) or << first, last + 1 >>.
MState(pos, caps) == [pos |-> pos, caps |-> caps]

charMatches(node, c) ==
    IF node.op = "char" THEN c = node.c
    ELSE IF node.op = "any" THEN c \notin LineTerminators
    ELSE IF node.op = "esc"
         THEN LET in == IF node.c = "d" THEN c \in Digits
                        ELSE IF node.c = "w" THEN c \in WordChars
                        ELSE c \in SpaceChars
              IN  in # node.neg
    ELSE FALSE

classMatches(node, c) ==
    (\E it \in node.items : charMatches(it, c)) # node.neg

\* The matcher of a node as the list, in backtracking priority order, of
\* the states it can leave behind from state r (MatchOne) or from each
\* state of a list (MatchAll).
RECURSIVE MatchAll(_, _, _, _), MatchOne(_, _, _)

\* A capturing group records where its body matched.
matchGroup(node, s, r) ==
    Bind(MatchOne(node.body, s, r), LAMBDA inner :
      [k \in 1..Len(inner) |->
         MState(inner[k].pos,
                [inner[k].caps EXCEPT ![node.idx] = << r.pos, inner[k].pos >>])])

\* A quantifier over a body that matches one character: with `run` the
\* number of characters from r.pos on that the body matches (at most one
\* for `?`), the states after run, run - 1, ... iterations down to the
\* minimum, or in the opposite order when lazy.
matchRun(node, s, r) ==
    LET fits(c) == IF node.body.op = "class" THEN classMatches(node.body, c)
                   ELSE charMatches(node.body, c)
        most == IF node.q = "?" THEN Min(1, Len(s) - r.pos + 1)
                ELSE Len(s) - r.pos + 1
        least == IF node.q = "+" THEN 1 ELSE 0
    IN  Bind(CHOOSE n \in 0..most :
                /\ \A k \in 1..n : fits(s[r.pos + k - 1])
                /\ n = most \/ ~fits(s[r.pos + n]),
             LAMBDA run :
               IF run < least THEN << >>
               ELSE [k \in 1..(run - least + 1) |->
                       MState(IF node.lazy THEN r.pos + least + k - 1
                              ELSE r.pos + run - k + 1,
                              r.caps)])

\* A quantifier: each iteration starts with the body's captures cleared;
\* once the minimum is met an iteration matching nothing is dropped.
matchQuant(node, s, r) ==
    IF node.body.op \in {"char", "any", "esc", "class"} THEN matchRun(node, s, r)
    ELSE
    Bind([star |-> [node EXCEPT !.q = "*"],
          once |-> MatchOne(node.body, s,
                            MState(r.pos,
                                   [k \in 1..Len(r.caps) |->
                                      IF k >= node.lo /\ k <= node.hi
                                      THEN << >> ELSE r.caps[k]]))],
         LAMBDA b :
           Bind([skip |-> IF node.q = "+" THEN << >> ELSE << r >>,
                 more |-> LET Progress(x) == x.pos > r.pos IN
                          IF node.q = "*"
                          THEN Bind(SelectSeq(b.once, Progress), LAMBDA rs :
                                 MatchAll(b.star, s, rs, 1))
                          ELSE IF node.q = "+" THEN MatchAll(b.star, s, b.once, 1)
                          ELSE SelectSeq(b.once, Progress)],
                LAMBDA c :
                  IF node.lazy THEN c.skip \o c.more ELSE c.more \o c.skip))

MatchOne(node, s, r) ==
    CASE node.op = "empty" -> << r >>
      [] node.op \in {"char", "any", "esc"} ->
            IF r.pos <= Len(s) /\ charMatches(node, s[r.pos])
            THEN << MState(r.pos + 1, r.caps) >> ELSE << >>
      [] node.op = "lit" ->
            IF /\ r.pos + Len(node.cs) - 1 <= Len(s)
               /\ SubSeq(s, r.pos, r.pos + Len(node.cs) - 1) = node.cs
            THEN << MState(r.pos + Len(node.cs), r.caps) >> ELSE << >>
      [] node.op = "class" ->
            IF r.pos <= Len(s) /\ classMatches(node, s[r.pos])
            THEN << MState(r.pos + 1, r.caps) >> ELSE << >>
      [] node.op = "bol" -> IF r.pos = 1 THEN << r >> ELSE << >>
      [] node.op = "eol" -> IF r.pos = Len(s) + 1 THEN << r >> ELSE << >>
      [] node.op = "seq" ->
            Bind(MatchOne(node.l, s, r), LAMBDA rs : MatchAll(node.r, s, rs, 1))
      [] node.op = "alt" -> MatchOne(node.l, s, r) \o MatchOne(node.r, s, r)
      [] node.op = "group" -> matchGroup(node, s, r)
      [] node.op = "quant" -> matchQuant(node, s, r)

\* The states node leaves behind from the states rs[k..], in order.
MatchAll(node, s, rs, k) ==
    IF k > Len(rs) THEN << >>
    ELSE MatchOne(node, s, rs[k]) \o MatchAll(node, s, rs, k + 1)

NoCaps(rx) == [k \in 1..rx.ngroups |-> << >>]

\* The match the engine reports when it starts at position i (1-based).
MatchAt(rx, s, i) == MatchOne(rx.node, s, MState(i, NoCaps(rx)))

\* RegExpBuiltinExec without the sticky flag: the first position at or
\* after lastIndex (0-based) where the pattern matches, 0 for none.
RECURSIVE firstMatchFrom(_, _, _)
firstMatchFrom(rx, s, i) ==
    IF i > Len(s) + 1 THEN 0
    ELSE IF MatchAt(rx, s, i) # << >> THEN i
    ELSE firstMatchFrom(rx, s, i + 1)

\* source.search(pattern): the 0-based index of the first match, or -1.
Search(rx, s) == firstMatchFrom(rx, s, 1) - 1

SubSeqOrEmpty(s, a, b) == IF a > b THEN << >> ELSE SubSeq(s, a, b)

DigitVal(c) ==
    CASE c = "0" -> 0 [] c = "1" -> 1 [] c = "2" -> 2 [] c = "3" -> 3
      [] c = "4" -> 4 [] c = "5" -> 5 [] c = "6" -> 6 [] c = "7" -> 7
      [] c = "8" -> 8 [] c = "9" -> 9

CaptureText(s, caps, k) ==
    IF caps[k] = << >> THEN << >>
    ELSE SubSeqOrEmpty(s, caps[k][1], caps[k][2] - 1)

\* A substitution that inserts the template as it is written.
verbatim(tpl, j, s, from, m) == SubSeqOrEmpty(tpl, j, Len(tpl))

\* GetSubstitution: the template from index j on, for the match of s that
\* starts at `from` and leaves state m.
RECURSIVE GetSubstitution(_, _, _, _, _)
GetSubstitution(tpl, j, s, from, m) ==
    IF j > Len(tpl) THEN << >>
    ELSE IF tpl[j] # "$" \/ j = Len(tpl)
         THEN << tpl[j] >> \o GetSubstitution(tpl, j + 1, s, from, m)
    ELSE LET c == tpl[j + 1]
             ncap == Len(m.caps)
             two == IF j + 2 <= Len(tpl) /\ c \in Digits /\ tpl[j + 2] \in Digits
                    THEN 10 * DigitVal(c) + DigitVal(tpl[j + 2]) ELSE 0
             one == IF c \in Digits THEN DigitVal(c) ELSE 0
         IN  IF c = "$" THEN << "$" >> \o GetSubstitution(tpl, j + 2, s, from, m)
             ELSE IF c = "&"
                  THEN SubSeqOrEmpty(s, from, m.pos - 1)
                       \o GetSubstitution(tpl, j + 2, s, from, m)
             ELSE IF c = "`"
                  THEN SubSeqOrEmpty(s, 1, from - 1)
                       \o GetSubstitution(tpl, j + 2, s, from, m)
             ELSE IF c = "'"
                  THEN SubSeqOrEmpty(s, m.pos, Len(s))
                       \o GetSubstitution(tpl, j + 2, s, from, m)
             ELSE IF two >= 1 /\ two <= ncap
                  THEN CaptureText(s, m.caps, two)
                       \o GetSubstitution(tpl, j + 3, s, from, m)
             ELSE IF one >= 1 /\ one <= ncap
                  THEN CaptureText(s, m.caps, one)
                       \o GetSubstitution(tpl, j + 2, s, from, m)
             ELSE << "$" >> \o GetSubstitution(tpl, j + 1, s, from, m)

\* source.replace(pattern, template) for a global pattern: every match from
\* lastIndex (0-based) on is substituted; after an empty match lastIndex
\* moves one character on.  `done` characters of s are already copied.
RECURSIVE replaceFrom(_, _, _, _, _)
replaceFrom(rx, tpl, s, lastIndex, done) ==
    Bind(firstMatchFrom(rx, s, lastIndex + 1), LAMBDA at :
      IF at = 0 THEN SubSeqOrEmpty(s, done + 1, Len(s))
      ELSE Bind(MatchAt(rx, s, at)[1], LAMBDA m :
             \* m.pos - 1 is the 0-based end of the match
             SubSeqOrEmpty(s, done + 1, at - 1)
             \o GetSubstitution(tpl, 1, s, at, m)
             \o replaceFrom(rx, tpl, s,
                            IF m.pos = at THEN m.pos ELSE m.pos - 1, m.pos - 1)))

Replace(rx, tpl, s) == replaceFrom(rx, tpl, s, 0, 0)

(***************************************************************************)
(* The rule compiler and the transform engine.                             *)
(***************************************************************************)
\* new ReplaceRule(pattern, replacer)
ReplaceRule(pattern, replacer) ==
    [pattern |-> pattern, regex |-> RegExpOf(pattern), replacer |-> replacer]

\* new Map(items.map(x => [x.id, x.text])).get(id): a later entry with the
\* same id overwrites an earlier one.
RECURSIVE mapGet(_, _, _)
mapGet(items, id, i) ==
    IF i = 0 THEN Undefined
    ELSE IF items[i].id = id THEN items[i].text
    ELSE mapGet(items, id, i - 1)

\* The catch block missing: the SyntaxError leaves compileRules.
catchMissing(rest) == [rules |-> << >>, raised |-> TRUE]

\* catch (e) { /* ignora inválidas */ }: the SyntaxError of an invalid
\* pattern is swallowed and the loop goes on with the rules of the rest.
catchInvalid(rest) == rest

\* The loop over links[i..]: a disabled link, one whose endpoints do not
\* both resolve to strings, and one whose pattern does not compile each
\* push nothing.
RECURSIVE compileFrom(_, _, _, _)
compileFrom(patterns, replacers, links, i) ==
    IF i > Len(links) THEN [rules |-> << >>, raised |-> FALSE]
    ELSE LET L == links[i]
             p == mapGet(patterns, L.patternId, Len(patterns))
             r == mapGet(replacers, L.replacerId, Len(replacers))
             rest == compileFrom(patterns, replacers, links, i + 1)
         IN  IF ~L.enabled THEN rest
             ELSE IF TypeOf(p) # "string" \/ TypeOf(r) # "string" THEN rest
             ELSE IF ~RegExpOf(p.val).ok THEN catchInvalid(rest)
             ELSE [rest EXCEPT !.rules = << ReplaceRule(p.val, r.val) >> \o @]

\* compileRules(): the rule list it leaves in this.rules, and whether it
\* threw.
compileRules(s) ==
    compileFrom(s.patterns.items, s.replacers.items,
                IF IsArray(s.links) THEN s.links.items ELSE << >>, 1)

\* The loop without its break: the last rule that matches the source wins.
RECURSIVE applyWithoutBreak(_, _, _)
applyWithoutBreak(rs, source, i) ==
    IF i > Len(rs) THEN source
    ELSE IF \E k \in (i + 1)..Len(rs) : Search(rs[k].regex, source) # -1
         THEN applyWithoutBreak(rs, source, i + 1)
         ELSE IF Search(rs[i].regex, source) # -1
              THEN Replace(rs[i].regex, rs[i].replacer, source)
              ELSE source

\* The loop returning nothing when it runs out of rules.
RECURSIVE applyOrNothing(_, _, _)
applyOrNothing(rs, source, i) ==
    IF i > Len(rs) THEN << >>
    ELSE IF Search(rs[i].regex, source) # -1
         THEN Replace(rs[i].regex, rs[i].replacer, source)
         ELSE applyOrNothing(rs, source, i + 1)

\* The loop of applyRules from rule i on.
RECURSIVE applyFrom(_, _, _)
applyFrom(rs, source, i) ==
    IF i > Len(rs) THEN source
    ELSE IF Search(rs[i].regex, source) # -1
         THEN Replace(rs[i].regex, rs[i].replacer, source)
         ELSE applyFrom(rs, source, i + 1)

\* applyRules(source): source is a JavaScript value, the result a string.
applyRules(rs, source) ==
    IF source.kind \in {"null", "undefined"} THEN << >>
    ELSE applyFrom(rs, source.val, 1)

(***************************************************************************)
(* The blobs a saved data.json may hold.                                   *)
(***************************************************************************)
SeqsUpTo(S, n) == UNION {[1..k -> S] : k \in 0..n}

\* An identifier handed out by an earlier session.
OldId(prefix, i) == [prefix |-> prefix, n |-> 0 - i]
\* The identifier of a pattern that no longer exists.
GoneId == OldId("p", 0)

Blob(ps, rs, ls, en, co, ver) ==
    [patterns |-> ps, replacers |-> rs, links |-> ls, enabled |-> en,
     comments |-> co, settingsFormatVersion |-> ver, active |-> Undefined]

LegacyReplacerTexts == << << "X" >>, << "Y" >>, << "Z" >>, << "W" >> >>

\* Generation 1 (string arrays only) and generation 2 (with flag and comment
\* arrays, of any length, whose entries may have the wrong type), of arrays
\* of up to n entries.
LegacyBlobs(n) ==
    { Blob(Arr(ps), Arr([j \in 1..nr |-> Str(LegacyReplacerTexts[j])]),
           Undefined, en, co,
           IF en = Undefined /\ co = Undefined THEN Undefined ELSE Num(2)) :
        ps \in SeqsUpTo({Str(<< "a" >>), Str(<< "b" >>)}, n),
        nr \in 0..n,
        en \in {Undefined} \cup
               {Arr(x) : x \in SeqsUpTo({Bool(TRUE), Bool(FALSE), Null}, n)},
        co \in {Undefined} \cup
               {Arr(x) : x \in SeqsUpTo({Str(<< "c" >>), Null}, n)} }

\* The i-th entry of a current-shaped array: a record with its identifier,
\* a hand-edited record without one, or (among the patterns) null.
CurrentEntries(prefix, text, i) ==
    {Item(OldId(prefix, i), Str(text)), Item(NoId, Str(text))}
    \cup (IF prefix = "p" THEN {Null} ELSE {})

\* The current-shaped arrays of up to n entries.
CurrentArrays(prefix, text, n) ==
    UNION { {xs \in [1..k -> UNION {CurrentEntries(prefix, text, i) : i \in 1..k}] :
               \A i \in 1..k : xs[i] \in CurrentEntries(prefix, text, i)} :
            k \in 0..n }

BlobLinkLists ==
    {Undefined,
     Arr(<< >>),
     Arr(<< LinkItem(OldId("link", 1), OldId("p", 1), OldId("r", 1), TRUE, << >>) >>),
     Arr(<< LinkItem(OldId("link", 1), OldId("p", 1), OldId("r", 1), FALSE, << "c" >>),
            LinkItem(OldId("link", 2), GoneId, OldId("r", 1), TRUE, << >>) >>)}

CurrentBlobs(n) ==
    { Blob(Arr(ps), Arr(rs), ls, Undefined, Undefined, Num(300)) :
        ps \in CurrentArrays("p", << "a" >>, n),
        rs \in CurrentArrays("r", << "X" >>, n),
        ls \in BlobLinkLists }

\* No saved data, a legacy blob of arrays up to nl long, or a current-shaped
\* blob of up to ni patterns and replacers.
Blobs(nl, ni) == {Null} \cup LegacyBlobs(nl) \cup CurrentBlobs(ni)

(***************************************************************************)
(* SpecMigrate: migrateIfNeeded and normalizeDefaultsIfEmpty applied, once *)
(* and again, to Object.assign({}, DEFAULT_SETTINGS, blob) for every blob. *)
(***************************************************************************)
\* The continuations of the handlers, by what follows their await:
\* compileRules and render(); compileRules and drawLines(); compileRules,
\* drawLines() and renderMiniLinksForAll(); compileRules alone.
TaskKinds == {"render", "draw", "drawMini", "compile"}

NoTasks == [k \in TaskKinds |-> 0]

\* The tab before display(): nothing rendered.
NoDom == [left |-> {}, right |-> {}, minis |-> {}, panel |-> {}, toggle |-> FALSE]

TabIdle ==
    /\ pending = Null
    /\ shown = NoDom
    /\ drawn = {}
    /\ drawTimers = 0
    /\ debTimer = FALSE
    /\ tasks = NoTasks
    /\ applied = Null
    /\ event = Null
    /\ handled = 0

InitMigrate ==
    /\ data \in Blobs(MaxLegacy, MaxItems)
    /\ settings = objectAssign(data)
    /\ rules = << >>
    /\ nextId = FirstFreeId
    /\ phase = "assigned"
    /\ raisedErr = FALSE
    /\ TabIdle

tabVars == << pending, shown, drawn, drawTimers, debTimer, tasks, applied,
              event, handled >>

MigrateStep ==
    /\ phase \in {"assigned", "migrated"}
    /\ ~raisedErr
    /\ LET out == migrateIfNeeded(settings, nextId)
       IN  /\ settings' = out.s
           /\ nextId' = out.n
           /\ raisedErr' = out.raised
    /\ phase' = IF phase = "assigned" THEN "migrated" ELSE "migrated2"
    /\ UNCHANGED << data, rules, tabVars >>

NormalizeStep ==
    /\ phase \in {"migrated", "normalized"}
    /\ ~raisedErr
    /\ LET out == normalizeDefaultsIfEmpty(settings, nextId)
       IN  /\ settings' = out.s
           /\ nextId' = out.n
           /\ raisedErr' = out.raised
    /\ phase' = IF phase = "migrated" THEN "normalized" ELSE "normalized2"
    /\ UNCHANGED << data, rules, tabVars >>

NextMigrate == MigrateStep \/ NormalizeStep

SpecMigrate == InitMigrate /\ [][NextMigrate]_vars

(***************************************************************************)
(* Claims about migration, checked under SpecMigrate.                      *)
(***************************************************************************)
ItemsOf(v) == IF IsArray(v) THEN v.items ELSE << >>

RawStrings(v) ==
    IsArray(v) /\ \A i \in 1..Len(v.items) : v.items[i].kind = "string"

\* A generation-1 or generation-2 blob: string arrays and no links.
IsLegacyBlob(b) ==
    b # Null /\ b.links = Undefined /\ RawStrings(b.patterns)
    /\ RawStrings(b.replacers)

HasId(xs, id) == \E i \in 1..Len(xs) : xs[i].kind = "object" /\ xs[i].id = id

LinksResolve(s) ==
    \A i \in 1..Len(ItemsOf(s.links)) :
        /\ HasId(ItemsOf(s.patterns), s.links.items[i].patternId)
        /\ HasId(ItemsOf(s.replacers), s.links.items[i].replacerId)

\* { id: string, text: string } records only
ItemRecords(v) ==
    /\ IsArray(v)
    /\ \A i \in 1..Len(v.items) :
          /\ v.items[i].kind = "object"
          /\ v.items[i].id # NoId
          /\ v.items[i].text.kind = "string"

CurrentShape(s) ==
    /\ ItemRecords(s.patterns)
    /\ ItemRecords(s.replacers)
    /\ IsArray(s.links)
    /\ s.settingsFormatVersion = Num(300)

\* C1: migrateIfNeeded applied to an already migrated blob changes nothing:
\* no record is wrapped or given an identifier again, no link is added or
\* removed, no identifier is drawn.
C1_MigrationIdempotent ==
    [][(phase = "migrated" /\ phase' = "migrated2")
         => (settings' = settings /\ nextId' = nextId)]_vars

\* C2: after migrateIfNeeded and normalizeDefaultsIfEmpty every link's
\* patternId is the id of a pattern and its replacerId the id of a replacer.
C2_LinksResolveAfterLoad ==
    phase = "normalized" => LinksResolve(settings)

\* C3: migrateIfNeeded does not raise and leaves a blob in the current
\* shape: patterns and replacers are {id, text} records, links is a
\* sequence, and the format version is 300.
C3_MigrationTotal ==
    phase = "migrated" => (~raisedErr /\ CurrentShape(settings))

\* C4: for a legacy blob with raw-string patterns P and replacers R,
\* migration yields exactly min(|P|, |R|) links, the i-th joining the
\* pattern wrapping P[i] to the replacer wrapping R[i], enabled as the
\* legacy flag when that is a boolean (else true), commented as the legacy
\* comment when that is a string (else empty).
C4_LegacyFidelity ==
    (phase \in {"migrated", "normalized"} /\ IsLegacyBlob(data)) =>
        LET P == data.patterns.items
            R == data.replacers.items
            ps == settings.patterns.items
            rs == settings.replacers.items
            ls == settings.links.items
        IN  /\ Len(ls) = Min(Len(P), Len(R))
            /\ \A i \in 1..Len(ls) :
                 /\ ls[i].patternId = ps[i].id /\ ps[i].text = P[i]
                 /\ ls[i].replacerId = rs[i].id /\ rs[i].text = R[i]
                 /\ \A j \in 1..Len(ps) : ps[j].id = ps[i].id => j = i
                 /\ \A j \in 1..Len(rs) : rs[j].id = rs[i].id => j = i
                 /\ ls[i].enabled =
                      IF IsArray(data.enabled) /\ i <= Len(data.enabled.items)
                         /\ data.enabled.items[i].kind = "boolean"
                      THEN data.enabled.items[i].val ELSE TRUE
                 /\ ls[i].comment =
                      IF IsArray(data.comments) /\ i <= Len(data.comments.items)
                         /\ data.comments.items[i].kind = "string"
                      THEN data.comments.items[i].val ELSE << >>

\* C4's case: two patterns and one replacer, a legacy flag that is false
\* and one of the wrong type, a legacy comment.
C4_Witness ==
    /\ phase = "migrated"
    /\ IsLegacyBlob(data)
    /\ Len(data.patterns.items) = 2 /\ Len(data.replacers.items) = 1
    /\ data.enabled = Arr(<< Bool(FALSE), Null >>)
    /\ data.comments = Arr(<< Str(<< "c" >>) >>)
    /\ Len(settings.links.items) = 1
    /\ ~settings.links.items[1].enabled
    /\ settings.links.items[1].comment = << "c" >>

(***************************************************************************)
(* SpecCompile: compileRules applied to loaded settings: two patterns, the *)
(* first with any text over CompileChars up to MaxPatLen (many of them not *)
(* regular expressions), two replacers, and up to MaxRules links that are  *)
(* enabled or not and resolve or not.  The first replacer's text is a      *)
(* string, or the record the legacy branch of migrateIfNeeded leaves when  *)
(* it wraps a replacer that was a record already.                          *)
(***************************************************************************)
CompileChars == {"a", "(", ")"}

P1 == OldId("p", 1)
P2 == OldId("p", 2)
R1 == OldId("r", 1)
R2 == OldId("r", 2)
GoneR == OldId("r", 0)

CompileLinkChoices ==
    { [patternId |-> P1, replacerId |-> R1, enabled |-> TRUE],
      [patternId |-> P1, replacerId |-> R1, enabled |-> FALSE],
      [patternId |-> P2, replacerId |-> R1, enabled |-> TRUE],
      [patternId |-> P1, replacerId |-> R2, enabled |-> TRUE],
      [patternId |-> GoneId, replacerId |-> R1, enabled |-> TRUE],
      [patternId |-> P1, replacerId |-> GoneR, enabled |-> TRUE] }

\* Pattern texts of up to np characters and up to nl links.
CompileSettings(np, nl) ==
    { [DEFAULT_SETTINGS EXCEPT
         !.patterns = Arr(<< Item(P1, Str(t)), Item(P2, Str(<< "b" >>)) >>),
         !.replacers = Arr(<< Item(R1, rt), Item(R2, Str(<< "Y" >>)) >>),
         !.links = Arr([i \in 1..Len(ls) |->
                          LinkItem(OldId("link", i), ls[i].patternId,
                                   ls[i].replacerId, ls[i].enabled, << >>)])] :
        t \in SeqsUpTo(CompileChars, np),
        rt \in {Str(<< "X" >>), Item(OldId("r", 9), Str(<< "X" >>))},
        ls \in SeqsUpTo(CompileLinkChoices, nl) }

InitCompile ==
    /\ data = Null
    /\ settings \in CompileSettings(MaxPatLen, MaxRules)
    /\ rules = << >>
    /\ nextId = FirstFreeId
    /\ phase = "loaded"
    /\ raisedErr = FALSE
    /\ TabIdle

CompileStep ==
    /\ phase = "loaded"
    /\ LET out == compileRules(settings)
       IN  /\ rules' = out.rules
           /\ raisedErr' = out.raised
    /\ phase' = "compiled"
    /\ UNCHANGED << data, settings, nextId, tabVars >>

NextCompile == CompileStep

SpecCompile == InitCompile /\ [][NextCompile]_vars

(***************************************************************************)
(* Claims about the rule compiler, checked under SpecCompile.              *)
(***************************************************************************)
\* The item a link's identifier names, when one does.
ItemWithId(xs, id) == CHOOSE x \in {xs[i] : i \in 1..Len(xs)} : x.id = id

\* Link i is enabled, both its endpoints resolve, and its pattern's text
\* compiles as a regular expression.
Eligible(s, i) ==
    LET L == s.links.items[i] IN
    /\ L.enabled
    /\ HasId(s.patterns.items, L.patternId)
    /\ HasId(s.replacers.items, L.replacerId)
    /\ LET t == ItemWithId(s.patterns.items, L.patternId).text
       IN  t.kind = "string" /\ RegExpOf(t.val).ok

\* Rule r is the one link i stands for: its pattern's text, its replacer's.
RuleOfLink(s, r, i) ==
    LET L == s.links.items[i] IN
    /\ Str(r.pattern) = ItemWithId(s.patterns.items, L.patternId).text
    /\ Str(r.replacer) = ItemWithId(s.replacers.items, L.replacerId).text

StrictlyIncreasing(f) ==
    \A j, k \in DOMAIN f : j < k => f[j] < f[k]

\* C9: after compileRules every rule derives from a link of its own that is
\* enabled, whose endpoints resolve and whose pattern compiles, in link
\* order (so none derives from a disabled, dangling or uncompilable link);
\* compileRules does not throw; and a link with an invalid pattern does not
\* keep a later eligible link from its rule.
C9_CompilerExclusion ==
    phase = "compiled" =>
        LET n == Len(settings.links.items) IN
        /\ ~raisedErr
        /\ \E f \in [1..Len(rules) -> 1..n] :
              /\ StrictlyIncreasing(f)
              /\ \A k \in 1..Len(rules) :
                    Eligible(settings, f[k]) /\ RuleOfLink(settings, rules[k], f[k])
        /\ \A i, j \in 1..n :
              (/\ i < j
               /\ settings.links.items[i].enabled
               /\ HasId(settings.patterns.items, settings.links.items[i].patternId)
               /\ HasId(settings.replacers.items, settings.links.items[i].replacerId)
               /\ ~Eligible(settings, i)
               /\ Eligible(settings, j)
               /\ ItemWithId(settings.replacers.items,
                             settings.links.items[j].replacerId).text.kind = "string")
              => \E k \in 1..Len(rules) : RuleOfLink(settings, rules[k], j)

\* C9's case: an enabled link with an invalid pattern, then a disabled one,
\* a dangling one and an eligible one, compiled to a single rule.
C9_Witness ==
    /\ phase = "compiled"
    /\ Len(rules) = 1
    /\ \E i, j, k \in 1..Len(settings.links.items) :
          /\ i < k
          /\ settings.links.items[i].enabled
          /\ settings.links.items[i].patternId = P1
          /\ settings.links.items[i].replacerId = R2
          /\ ~Eligible(settings, i)
          /\ settings.links.items[j].patternId = GoneId
          /\ Eligible(settings, k)
          /\ RuleOfLink(settings, rules[1], k)

\* C10: the compiled rule list is exactly the links that are enabled, whose
\* endpoints resolve and whose pattern compiles, one rule each (its pattern
\* text, its replacer text), in link order.
C10_CompilerExact ==
    phase = "compiled" =>
        \E f \in [1..Len(rules) -> 1..Len(settings.links.items)] :
            /\ StrictlyIncreasing(f)
            /\ \A k \in 1..Len(rules) :
                  Eligible(settings, f[k]) /\ RuleOfLink(settings, rules[k], f[k])
            /\ \A i \in 1..Len(settings.links.items) :
                  Eligible(settings, i) <=> (\E k \in 1..Len(rules) : f[k] = i)

(***************************************************************************)
(* SpecApply: applyRules called once on every compiled rule list of up to  *)
(* MaxRules rules drawn from ApplyRuleChoices, with null, undefined and    *)
(* every string over ApplyChars up to MaxSrcLen as its argument.           *)
(***************************************************************************)
ApplyChars == {"a", "b"}

ApplyRuleChoices ==
    { ReplaceRule(<< "a" >>, << "X" >>),
      ReplaceRule(<< "b" >>, << "a" >>),
      ReplaceRule(<< "a", "b" >>, << "$", "&", "$", "&" >>),
      ReplaceRule(<< "(", "a", ")", "|", "b" >>, << "[", "$", "1", "]" >>),
      ReplaceRule(<< "a", "*" >>, << "X" >>),
      ReplaceRule(<< "c" >>, << "Z" >>) }

ApplySources ==
    {Null, Undefined} \cup {Str(t) : t \in SeqsUpTo(ApplyChars, MaxSrcLen)}

InitApply ==
    /\ data = Null
    /\ settings = DEFAULT_SETTINGS
    /\ rules \in SeqsUpTo(ApplyRuleChoices, MaxRules)
    /\ nextId = FirstFreeId
    /\ phase = "compiled"
    /\ raisedErr = FALSE
    /\ TabIdle

ApplyStep ==
    /\ phase = "compiled"
    /\ \E source \in ApplySources :
          applied' = [kind |-> "call", source |-> source,
                      result |-> applyRules(rules, source)]
    /\ phase' = "applied"
    /\ UNCHANGED << data, settings, rules, nextId, raisedErr, pending, shown,
                    drawn, drawTimers, debTimer, tasks, event, handled >>

NextApply == ApplyStep

SpecApply == InitApply /\ [][NextApply]_vars

(***************************************************************************)
(* Claims about the transform engine, checked under SpecApply.             *)
(***************************************************************************)
\* C7: applyRules returns the empty string whenever its input is null,
\* undefined or the empty string, whatever the compiled rule list.
C7_EmptyInputEmptyOutput ==
    (phase = "applied" /\ applied.source \in {Null, Undefined, Str(<< >>)})
        => applied.result = << >>

\* The pattern of rule r matches somewhere in s.
MatchesAnywhere(r, s) ==
    \E i \in 1..(Len(s) + 1) : MatchAt(r.regex, s, i) # << >>

\* The rules of rs whose pattern matches somewhere in s.
MatchingRules(rs, s) == {k \in 1..Len(rs) : MatchesAnywhere(rs[k], s)}

\* s with every occurrence of the character c replaced by the text t.
RECURSIVE EachCharReplaced(_, _, _)
EachCharReplaced(s, c, t) ==
    IF s = << >> THEN << >>
    ELSE (IF Head(s) = c THEN t ELSE << Head(s) >>)
         \o EachCharReplaced(Tail(s), c, t)

\* C8: for a non-empty input, applyRules returns the input unchanged when no
\* rule matches it, and otherwise the input with all matches of the first
\* matching rule's pattern substituted by that rule's template: no later
\* rule is applied, to the input or to the output.  When that rule is a
\* single literal character with a template free of "$", the output is the
\* input with each such character replaced.
C8_FirstMatchWins ==
    (phase = "applied" /\ applied.source.kind = "string"
                       /\ applied.source.val # << >>) =>
        LET s == applied.source.val
            M == MatchingRules(rules, s)
        IN  IF M = {} THEN applied.result = s
            ELSE LET k == CHOOSE k \in M : \A j \in M : k <= j
                     r == rules[k]
                 IN  /\ applied.result = Replace(r.regex, r.replacer, s)
                     /\ (r.pattern \in {<< "a" >>, << "b" >>}
                            => applied.result =
                                 EachCharReplaced(s, r.pattern[1], r.replacer))

\* C8's case: "aba" under the rules c -> Z, a -> X, b -> a gives "XbX": the
\* first rule does not match, the second replaces both a's, and the third,
\* which matches the input and the output, is not applied.
C8_Witness ==
    /\ phase = "applied"
    /\ Len(rules) = 3
    /\ rules[1].pattern = << "c" >>
    /\ rules[2].pattern = << "a" >> /\ rules[2].replacer = << "X" >>
    /\ rules[3].pattern = << "b" >> /\ rules[3].replacer = << "a" >>
    /\ applied.source = Str(<< "a", "b", "a" >>)
    /\ applied.result = << "X", "b", "X" >>

(***************************************************************************)
(* Spec: the plugin from onload on.  loadSettings reads one of the saved   *)
(* blobs; the settings tab is displayed once; then the tab's handlers, the *)
(* toggle command, paste events and the Try rules box run in any order,    *)
(* each handler up to its `await this.plugin.saveSettings()` in one step   *)
(* and its continuation in a later one.  saveData takes its copy of the    *)
(* settings when it is called; the saves complete in any order.  The Debug *)
(* mode toggle, which only sets debugMode and saves, is left out.          *)
(***************************************************************************)
SavedCurrent ==
    Blob(Arr(<< Item(P1, Str(<< "a" >>)) >>),
         Arr(<< Item(R1, Str(<< "X" >>)) >>),
         Arr(<< LinkItem(OldId("link", 1), P1, R1, TRUE, << >>) >>),
         Undefined, Undefined, Num(300))

SavedLegacy ==
    Blob(Arr(<< Str(<< "a" >>) >>), Arr(<< Str(<< "X" >>) >>), Undefined,
         Arr(<< Bool(FALSE) >>), Undefined, Undefined)

\* What is saved once the user has deleted every pattern.
SavedNoPatterns ==
    Blob(Arr(<< >>), Arr(<< Item(R1, Str(<< "X" >>)) >>), Arr(<< >>),
         Undefined, Undefined, Num(300))

\* A hand-edited blob with a null entry.
SavedBroken ==
    Blob(Arr(<< Null >>), Arr(<< Item(R1, Str(<< "X" >>)) >>), Arr(<< >>),
         Undefined, Undefined, Num(300))

SavedBlobs == {SavedCurrent, SavedLegacy, SavedNoPatterns, SavedBroken}

Sides == {"left", "right"}

\* What the user types into an input: blank, or b after a blank.
TypedTexts == { << " " >>, << " ", "b" >> }

CommentTexts == { << "c" >> }

\* Clipboard events: defaultPrevented, clipboardData.types, the text/plain
\* data, and the editor at hand (the active MarkdownView's, only
\* workspace.activeEditor's, or none).
ClipboardEvent(prevented, types, text, editor) ==
    [defaultPrevented |-> prevented, types |-> types, text |-> text,
     editor |-> editor]

PasteEvents ==
    { ClipboardEvent(FALSE, << "text/plain" >>, Str(<< "a" >>), "view"),
      ClipboardEvent(FALSE, << "text/plain" >>, Str(<< "a" >>), "activeEditor"),
      ClipboardEvent(FALSE, << "text/plain" >>, Str(<< "a" >>), "none"),
      ClipboardEvent(TRUE, << "text/plain" >>, Str(<< "a" >>), "view"),
      ClipboardEvent(FALSE, << "text/plain", "text/html" >>, Str(<< "a" >>), "view"),
      ClipboardEvent(FALSE, << "text/plain" >>, Str(<< >>), "view") }

\* What the Try rules box holds after a change.
TrySources == { Str(<< "a" >>), Str(<< >>) }

Init ==
    /\ data \in SavedBlobs
    /\ settings = Undefined
    /\ rules = << >>
    /\ nextId = FirstFreeId
    /\ phase = "init"
    /\ raisedErr = FALSE
    /\ TabIdle

\* String.prototype.trim
RECURSIVE trimStart(_)
trimStart(t) ==
    IF t # << >> /\ Head(t) \in SpaceChars THEN trimStart(Tail(t)) ELSE t

RECURSIVE trimEnd(_)
trimEnd(t) ==
    IF t # << >> /\ t[Len(t)] \in SpaceChars
    THEN trimEnd(SubSeq(t, 1, Len(t) - 1)) ELSE t

trim(t) == trimEnd(trimStart(t))

\* loadSettings: the settings, the identifier counter and the rules it
\* leaves, and whether it threw (before compileRules, then).
loadSettings(blob, n0) ==
    Bind(migrateIfNeeded(objectAssign(blob), n0), LAMBDA m :
      IF m.raised
      THEN [s |-> m.s, n |-> m.n, raised |-> TRUE, rules |-> << >>]
      ELSE Bind(normalizeDefaultsIfEmpty(m.s, m.n), LAMBDA z :
             [s |-> z.s, n |-> z.n, raised |-> FALSE,
              rules |-> compileRules(z.s).rules]))

\* onload up to the end of loadSettings; when that throws the plugin does
\* not load.
LoadSettings ==
    /\ phase = "init"
    /\ \E out \in {loadSettings(data, nextId)} :
          /\ settings' = out.s
          /\ nextId' = out.n
          /\ rules' = out.rules
          /\ raisedErr' = out.raised
          /\ phase' = IF out.raised THEN "failed" ELSE "loaded"
    /\ UNCHANGED << data, tabVars >>

idsOf(items) == {items[i].id : i \in 1..Len(items)}

linksOf(s) == {s.links.items[i] : i \in 1..Len(s.links.items)}

\* renderMini of the <li> of item id: one checkbox per link of the item.
renderMini(s, side, id) ==
    { [side |-> side, item |-> id, link |-> L.id, checked |-> L.enabled] :
        L \in {K \in linksOf(s) : IF side = "left" THEN K.patternId = id
                                  ELSE K.replacerId = id} }

\* renderMiniLinksForAll: renderMini of every <li> in the two lists.
renderMiniLinksForAll(s, left, right) ==
    UNION ({renderMini(s, "left", id) : id \in left}
           \cup {renderMini(s, "right", id) : id \in right})

\* render() without its timer: the two columns and the links panel.
render(s, dom) ==
    [left |-> idsOf(s.patterns.items),
     right |-> idsOf(s.replacers.items),
     minis |-> renderMiniLinksForAll(s, idsOf(s.patterns.items),
                                     idsOf(s.replacers.items)),
     panel |-> {L.id : L \in linksOf(s)},
     toggle |-> dom.toggle]

\* drawLines: a split button for every link whose pattern and replacer are
\* both in the settings and both have an <li>.
drawLines(s, dom) ==
    { L.id : L \in {K \in linksOf(s) :
                      /\ K.patternId \in idsOf(s.patterns.items) \cap dom.left
                      /\ K.replacerId \in idsOf(s.replacers.items) \cap dom.right} }

\* Nothing of this step is an applyRules call or a clipboard event.
Quiet == applied' = Null /\ event' = Null

Queue(kind) == tasks' = [tasks EXCEPT ![kind] = @ + 1]

Unqueue(kind) == tasks' = [tasks EXCEPT ![kind] = @ - 1]

\* settings.links with field f of the link object l set to v; a link object
\* no longer in the array is changed to no effect.
setLink(s, l, f, v) ==
    [s EXCEPT !.links.items =
        [i \in 1..Len(@) |-> IF @[i].id = l THEN [@[i] EXCEPT ![f] = v] ELSE @[i]]]

\* The item object of an <li> given a new text.
setText(items, id, v) ==
    [i \in 1..Len(items) |->
       IF items[i].id = id THEN [items[i] EXCEPT !.text = v] ELSE items[i]]

\* ps.splice(ps.findIndex(p => p.id === id), 1) when the index is >= 0
RECURSIVE spliceFirst(_, _)
spliceFirst(items, id) ==
    IF items = << >> THEN << >>
    ELSE IF Head(items).id = id THEN Tail(items)
    ELSE << Head(items) >> \o spliceFirst(Tail(items), id)

\* display(): the first render() of the tab.
Display ==
    /\ phase = "loaded"
    /\ phase' = "open"
    /\ pending' = Null
    /\ shown' = render(settings, [toggle |-> settings.active.val])
    /\ drawTimers' = drawTimers + 1
    /\ Quiet
    /\ UNCHANGED << data, settings, rules, nextId, raisedErr, drawn, debTimer,
                    tasks, handled >>

\* A push whose identifier was made once, when the form was built, and not
\* at the submit.
pushItemStaleId(items, prefix, n, text) ==
    Append(items, Item(uid(prefix, 0), Str(text)))

\* list.push({ id: uid(prefix), text: v })
pushItem(items, prefix, n, text) ==
    Append(items, Item(uid(prefix, n), Str(text)))

\* The submit handler of a column's form, up to its await.
AddItem ==
    /\ phase = "open"
    /\ handled < MaxHandled
    /\ \E side \in Sides, typed \in TypedTexts :
          IF trim(typed) = << >>
          THEN UNCHANGED << data, settings, nextId, tasks, handled >>
          ELSE /\ settings' =
                    IF side = "left"
                    THEN [settings EXCEPT !.patterns.items =
                            pushItem(@, "p", nextId, trim(typed))]
                    ELSE [settings EXCEPT !.replacers.items =
                            pushItem(@, "r", nextId, trim(typed))]
               /\ nextId' = nextId + 1
               /\ data' = settings'
               /\ Queue("render")
               /\ handled' = handled + 1
    /\ Quiet
    /\ UNCHANGED << rules, phase, raisedErr, pending, shown, drawn, drawTimers,
                    debTimer >>

\* commit of an inline edit, up to its await; a blank text cancels.
CommitEdit ==
    /\ phase = "open"
    /\ handled < MaxHandled
    /\ \E side \in Sides, typed \in TypedTexts :
          \E id \in (IF side = "left" THEN shown.left ELSE shown.right) :
             IF trim(typed) = << >>
             THEN UNCHANGED << data, settings, tasks, handled >>
             ELSE /\ settings' =
                       IF side = "left"
                       THEN [settings EXCEPT !.patterns.items =
                               setText(@, id, Str(trim(typed)))]
                       ELSE [settings EXCEPT !.replacers.items =
                               setText(@, id, Str(trim(typed)))]
                  /\ data' = settings'
                  /\ Queue("render")
                  /\ handled' = handled + 1
    /\ Quiet
    /\ UNCHANGED << rules, nextId, phase, raisedErr, pending, shown, drawn,
                    drawTimers, debTimer >>

\* A delete handler that leaves settings.links as it was.
keepLinks(links, side, id) == links

\* (settings.links || []).filter(L => L.patternId !== item.id) of a pattern's
\* delete button, filter(L => L.replacerId !== item.id) of a replacer's.
cascade(links, side, id) ==
    IF side = "left"
    THEN SelectSeq(links, LAMBDA L : L.patternId # id)
    ELSE SelectSeq(links, LAMBDA L : L.replacerId # id)

\* The click handler of an item's delete button, up to its await.
DeleteItem ==
    /\ phase = "open"
    /\ handled < MaxHandled
    /\ \E side \in Sides :
          \E id \in (IF side = "left" THEN shown.left ELSE shown.right) :
             settings' =
                IF side = "left"
                THEN [settings EXCEPT
                        !.patterns.items = spliceFirst(@, id),
                        !.links.items = cascade(@, side, id)]
                ELSE [settings EXCEPT
                        !.replacers.items = spliceFirst(@, id),
                        !.links.items = cascade(@, side, id)]
    /\ data' = settings'
    /\ Queue("render")
    /\ handled' = handled + 1
    /\ Quiet
    /\ UNCHANGED << rules, nextId, phase, raisedErr, pending, shown, drawn,
                    drawTimers, debTimer >>

\* A duplicate test that never finds the pair.
neverLinked(s, pId, rId) == FALSE

\* links.some(L => L.patternId === pId && L.replacerId === rId)
alreadyLinked(s, pId, rId) ==
    \E L \in linksOf(s) : L.patternId = pId /\ L.replacerId = rId

\* The click handler of an item's link button: select, reselect on the
\* same side, or connect across the sides.
LinkClick ==
    /\ phase = "open"
    /\ \E side \in Sides :
          \E id \in (IF side = "left" THEN shown.left ELSE shown.right) :
             IF pending.kind = "null" \/ pending.side = side
             THEN /\ pending' = [kind |-> "pending", side |-> side, id |-> id]
                  /\ UNCHANGED << settings, nextId, debTimer, handled, drawn, shown >>
             ELSE LET a == IF pending.side = "left" THEN pending.id ELSE id
                      b == IF pending.side = "right" THEN pending.id ELSE id
                      swap == a \notin idsOf(settings.patterns.items)
                      pId == IF swap THEN b ELSE a
                      rId == IF swap THEN a ELSE b
                  IN  /\ IF alreadyLinked(settings, pId, rId)
                         THEN UNCHANGED << settings, nextId, debTimer, handled >>
                         ELSE /\ handled < MaxHandled
                              /\ settings' =
                                   [settings EXCEPT !.links.items =
                                      Append(@, LinkItem(uid("link", nextId),
                                                         pId, rId, TRUE, << >>))]
                              /\ nextId' = nextId + 1
                              /\ debTimer' = TRUE
                              /\ handled' = handled + 1
                      /\ pending' = Null
                      /\ drawn' = drawLines(settings', shown)
                      /\ shown' = [shown EXCEPT !.minis =
                                     renderMiniLinksForAll(settings', shown.left,
                                                           shown.right)]
    /\ Quiet
    /\ UNCHANGED << data, rules, phase, raisedErr, drawTimers, tasks >>

\* The click handler of the upper half of a link's split button, up to its
\* await.
RemoveLink ==
    /\ phase = "open"
    /\ handled < MaxHandled
    /\ \E l \in drawn :
          settings' = [settings EXCEPT
                         !.links.items = SelectSeq(@, LAMBDA K : K.id # l)]
    /\ data' = settings'
    /\ Queue("render")
    /\ handled' = handled + 1
    /\ Quiet
    /\ UNCHANGED << rules, nextId, phase, raisedErr, pending, shown, drawn,
                    drawTimers, debTimer >>

\* The click handler of the lower half of a link's split button, up to its
\* await.
ToggleLink ==
    /\ phase = "open"
    /\ handled < MaxHandled
    /\ \E l \in drawn :
          settings' = [settings EXCEPT !.links.items =
                         [i \in 1..Len(@) |->
                            IF @[i].id = l THEN [@[i] EXCEPT !.enabled = ~@]
                            ELSE @[i]]]
    /\ data' = settings'
    /\ Queue("drawMini")
    /\ handled' = handled + 1
    /\ Quiet
    /\ UNCHANGED << rules, nextId, phase, raisedErr, pending, shown, drawn,
                    drawTimers, debTimer >>

\* The change handler of a link checkbox of an item, up to its await.
MiniToggle ==
    /\ phase = "open"
    /\ handled < MaxHandled
    /\ \E m \in shown.minis :
          /\ shown' = [shown EXCEPT !.minis =
                         (@ \ {m}) \cup {[m EXCEPT !.checked = ~m.checked]}]
          /\ settings' = setLink(settings, m.link, "enabled", ~m.checked)
    /\ data' = settings'
    /\ Queue("draw")
    /\ handled' = handled + 1
    /\ Quiet
    /\ UNCHANGED << rules, nextId, phase, raisedErr, pending, drawn, drawTimers,
                    debTimer >>

\* The change handler of a comment input of the links panel.
CommentEdit ==
    /\ phase = "open"
    /\ handled < MaxHandled
    /\ \E l \in shown.panel, v \in CommentTexts :
          settings' = setLink(settings, l, "comment", v)
    /\ data' = settings'
    /\ handled' = handled + 1
    /\ Quiet
    /\ UNCHANGED << rules, nextId, phase, raisedErr, pending, shown, drawn,
                    drawTimers, debTimer, tasks >>

\* toggleActive(force) up to its await: without an argument from the
\* command and the status bar, with the new value of the Ativo toggle from
\* the settings tab.
toggleActive ==
    /\ phase \in {"loaded", "open"}
    /\ handled < MaxHandled
    /\ \E force \in {Undefined}
                    \cup (IF phase = "open" THEN {Bool(~shown.toggle)} ELSE {}) :
          /\ settings' = [settings EXCEPT !.active =
                            IF force = Undefined THEN Bool(~settings.active.val)
                            ELSE force]
          /\ shown' = IF force = Undefined THEN shown
                      ELSE [shown EXCEPT !.toggle = force.val]
    /\ data' = settings'
    /\ Queue("compile")
    /\ handled' = handled + 1
    /\ Quiet
    /\ UNCHANGED << rules, nextId, phase, raisedErr, pending, drawn, drawTimers,
                    debTimer >>

\* saveDebounced's timer runs out: its callback, up to its await.
DebounceFire ==
    /\ debTimer
    /\ debTimer' = FALSE
    /\ data' = settings
    /\ Queue("compile")
    /\ Quiet
    /\ UNCHANGED << settings, rules, nextId, phase, raisedErr, pending, shown,
                    drawn, drawTimers, handled >>

\* After the await of add, edit, delete and remove link.
ResumeRender ==
    /\ tasks["render"] > 0
    /\ Unqueue("render")
    /\ rules' = compileRules(settings).rules
    /\ shown' = render(settings, shown)
    /\ drawTimers' = drawTimers + 1
    /\ Quiet
    /\ UNCHANGED << data, settings, nextId, phase, raisedErr, pending, drawn,
                    debTimer, handled >>

\* After the await of a link checkbox's change.
ResumeDraw ==
    /\ tasks["draw"] > 0
    /\ Unqueue("draw")
    /\ rules' = compileRules(settings).rules
    /\ drawn' = drawLines(settings, shown)
    /\ Quiet
    /\ UNCHANGED << data, settings, nextId, phase, raisedErr, pending, shown,
                    drawTimers, debTimer, handled >>

\* After the await of the split button's lower half.
ResumeDrawMini ==
    /\ tasks["drawMini"] > 0
    /\ Unqueue("drawMini")
    /\ rules' = compileRules(settings).rules
    /\ drawn' = drawLines(settings, shown)
    /\ shown' = [shown EXCEPT !.minis =
                   renderMiniLinksForAll(settings, shown.left, shown.right)]
    /\ Quiet
    /\ UNCHANGED << data, settings, nextId, phase, raisedErr, pending,
                    drawTimers, debTimer, handled >>

\* A continuation that ends at the save: no compileRules after the await.
ResumeSaveOnly ==
    /\ tasks["compile"] > 0
    /\ Unqueue("compile")
    /\ Quiet
    /\ UNCHANGED << data, settings, rules, nextId, phase, raisedErr, pending,
                    shown, drawn, drawTimers, debTimer, handled >>

\* After the await of toggleActive and of saveDebounced's callback.
ResumeCompile ==
    /\ tasks["compile"] > 0
    /\ Unqueue("compile")
    /\ rules' = compileRules(settings).rules
    /\ Quiet
    /\ UNCHANGED << data, settings, nextId, phase, raisedErr, pending, shown,
                    drawn, drawTimers, debTimer, handled >>

\* A setTimeout(drawLines, 30) of render() runs out.
DrawTimer ==
    /\ drawTimers > 0
    /\ drawTimers' = drawTimers - 1
    /\ drawn' = drawLines(settings, shown)
    /\ Quiet
    /\ UNCHANGED << data, settings, rules, nextId, phase, raisedErr, pending,
                    shown, debTimer, tasks, handled >>

\* The debounced drawLines of a window resize or a scroll.
Resize ==
    /\ phase = "open"
    /\ drawn' = drawLines(settings, shown)
    /\ Quiet
    /\ UNCHANGED << data, settings, rules, nextId, phase, raisedErr, pending,
                    shown, drawTimers, debTimer, tasks, handled >>

\* An applyRules call: its argument and result, whether the plugin was
\* active, and whether this.rules was what compileRules gives for the
\* settings of that moment.
Call(source) ==
    [kind |-> "call", source |-> source, result |-> applyRules(rules, source),
     active |-> settings.active.val,
     compiled |-> rules = compileRules(settings).rules]

\* What onPaste leaves of the event: whether its default is prevented and
\* the text put into the editor, if any.
Handled(ev, prevented, inserted) ==
    [kind |-> "paste", ev |-> ev, defaultPrevented |-> prevented,
     inserted |-> inserted]

\* An onPaste that calls event.preventDefault() as soon as the result
\* differs, before it has found an editor.
preventThenInsert(ev, result) ==
    IF Str(result) # ev.text
    THEN Handled(ev, TRUE,
                 IF ev.editor # "none" THEN Str(result) ELSE Undefined)
    ELSE Handled(ev, FALSE, Undefined)

\* if (result !== plainText): replaceSelection(result) and preventDefault()
\* on the active MarkdownView's editor, else on workspace.activeEditor's;
\* with neither, nothing.
insertResult(ev, result) ==
    IF Str(result) # ev.text /\ ev.editor # "none"
    THEN Handled(ev, TRUE, Str(result))
    ELSE Handled(ev, FALSE, Undefined)

\* onPaste
Paste ==
    /\ phase \in {"loaded", "open"}
    /\ handled < MaxHandled
    /\ handled' = handled + 1
    /\ \E ev \in PasteEvents :
          IF \/ ~settings.active.val
             \/ ev.defaultPrevented
             \/ ev.types # << "text/plain" >>
             \/ ev.text = Str(<< >>)
          THEN /\ applied' = Null
               /\ event' = Handled(ev, ev.defaultPrevented, Undefined)
          ELSE \E c \in {Call(ev.text)} :
                  /\ applied' = c
                  /\ event' = insertResult(ev, c.result)
    /\ UNCHANGED << data, settings, rules, nextId, phase, raisedErr, pending,
                    shown, drawn, drawTimers, debTimer, tasks >>

\* The change handler of the Try rules box.
TryChange ==
    /\ phase = "open"
    /\ handled < MaxHandled
    /\ handled' = handled + 1
    /\ \E v \in TrySources : applied' = Call(v)
    /\ event' = Null
    /\ UNCHANGED << data, settings, rules, nextId, phase, raisedErr, pending,
                    shown, drawn, drawTimers, debTimer, tasks >>

Next ==
    \/ LoadSettings
    \/ Display
    \/ AddItem
    \/ CommitEdit
    \/ DeleteItem
    \/ LinkClick
    \/ RemoveLink
    \/ ToggleLink
    \/ MiniToggle
    \/ CommentEdit
    \/ toggleActive
    \/ DebounceFire
    \/ ResumeRender
    \/ ResumeDraw
    \/ ResumeDrawMini
    \/ ResumeCompile
    \/ DrawTimer
    \/ Resize
    \/ Paste
    \/ TryChange

Spec == Init /\ [][Next]_vars

(***************************************************************************)
(* Claims about the settings tab, checked under Spec.                      *)
(***************************************************************************)
\* C5: applyRules never runs against a rule list that differs from
\* compileRules of the current patterns, replacers and links, whatever the
\* interleaving of the edit handlers, their awaited saves, the debounced
\* save of a new link, and paste and Try rules events.
C5_RecompileBeforeTransform ==
    applied.kind = "call" => applied.compiled

\* C6: in every state the settings tab reaches from a loaded blob whose
\* links all resolve, every link's patternId is the id of an existing
\* pattern and its replacerId the id of an existing replacer.
C6_LinksResolveUnderEditing ==
    phase \in {"loaded", "open"} => LinksResolve(settings)


-----------------------------------------------------------------------------
\* Cascade deletion

\* The ids of a column's items.
ColumnIds(s, side) ==
    idsOf(IF side = "left" THEN s.patterns.items ELSE s.replacers.items)

\* rs is made, in link order, of rules of links of s that are enabled and
\* whose two ends are items of s.
FromLiveLinks(s, rs) ==
    \E f \in SeqsUpTo(1..Len(s.links.items), Len(s.links.items)) :
       /\ StrictlyIncreasing(f)
       /\ Len(f) = Len(rs)
       /\ \A k \in 1..Len(f) :
             /\ s.links.items[f[k]].patternId \in ColumnIds(s, "left")
             /\ s.links.items[f[k]].replacerId \in ColumnIds(s, "right")
             /\ Eligible(s, f[k])
             /\ RuleOfLink(s, rs[k], f[k])

-----------------------------------------------------------------------------
\* Duplicate-link rejection

NoDuplicateLinks(s) ==
    \A i, j \in 1..Len(s.links.items) :
       (/\ s.links.items[i].patternId = s.links.items[j].patternId
        /\ s.links.items[i].replacerId = s.links.items[j].replacerId) => i = j

\* The link L joins the items x and y, whichever of them is its pattern.
Joins(L, x, y) ==
    \/ L.patternId = x /\ L.replacerId = y
    \/ L.patternId = y /\ L.replacerId = x

\* C12: once the settings are loaded no two links have the same
\* (patternId, replacerId) pair; and a click that connects the selected item
\* across the sides either finds the pair already linked and then changes
\* no link, hands out no id and schedules no save, or appends one enabled
\* link with an empty comment on a pair no link had, leaves the links before
\* it as they were and schedules the debounced save.
C12_DuplicateLinkRejection ==
    [][ /\ phase' \in {"loaded", "open"} => NoDuplicateLinks(settings')
        /\ (phase = "open" /\ pending.kind = "pending" /\ pending'.kind = "null") =>
              LET old == settings.links.items
                  new == settings'.links.items
                  others == IF pending.side = "left" THEN shown.right
                            ELSE shown.left
              IN  \/ /\ \E x \in others : \E L \in linksOf(settings) :
                           Joins(L, pending.id, x)
                     /\ settings' = settings
                     /\ nextId' = nextId
                     /\ debTimer' = debTimer
                     /\ data' = data
                     /\ tasks' = tasks
                  \/ /\ Len(new) = Len(old) + 1
                     /\ SubSeq(new, 1, Len(old)) = old
                     /\ \E x \in others : Joins(new[Len(new)], pending.id, x)
                     /\ \A i \in 1..Len(old) :
                           ~ (/\ old[i].patternId = new[Len(new)].patternId
                              /\ old[i].replacerId = new[Len(new)].replacerId)
                     /\ new[Len(new)].enabled = TRUE
                     /\ new[Len(new)].comment = << >>
                     /\ debTimer' = TRUE
      ]_vars

\* The pattern of the saved link has been connected to a second replacer:
\* two links on the same pattern, on different pairs, both drawn.
C12_Witness ==
    /\ phase = "open"
    /\ pending.kind = "null"
    /\ Len(settings.links.items) = 2
    /\ settings.links.items[1].patternId = settings.links.items[2].patternId
    /\ settings.links.items[1].replacerId # settings.links.items[2].replacerId
    /\ drawn = {settings.links.items[1].id, settings.links.items[2].id}

-----------------------------------------------------------------------------
\* Global disable

\* onPaste with settings.active off: no applyRules call, nothing inserted,
\* preventDefault not called.
PasteLeftAlone ==
    (event.kind = "paste" /\ ~settings.active.val) =>
       /\ applied = Null
       /\ event.inserted = Undefined
       /\ event.defaultPrevented = event.ev.defaultPrevented

\* C13: applyRules is only ever called, by the paste handler or by the Try
\* rules box, while settings.active is on; and a paste handled while it is
\* off is left alone.
C13_GlobalDisable ==
    /\ applied.kind = "call" => applied.active
    /\ PasteLeftAlone

-----------------------------------------------------------------------------
\* No-match passthrough (SpecApply)

\* C14: when the input is a non-empty string and no rule of the compiled
\* list has a pattern that matches at any position of it, applyRules
\* returns the input, character for character.
C14_NoMatchPassthrough ==
    (/\ phase = "applied"
     /\ applied.source.kind = "string"
     /\ applied.source.val # << >>
     /\ \A k \in 1..Len(rules) : ~MatchesAnywhere(rules[k], applied.source.val))
        => applied.result = applied.source.val

\* "bb" under the rules c -> Z, a -> X: neither pattern occurs in it.
C14_Witness ==
    /\ phase = "applied"
    /\ Len(rules) = 2
    /\ rules[1].pattern = << "c" >>
    /\ rules[2].pattern = << "a" >>
    /\ applied.source = Str(<< "b", "b" >>)
    /\ applied.result = << "b", "b" >>

-----------------------------------------------------------------------------
\* Placeholder expansion (SpecApply)

\* A rule that turns the URL of a GitHub issue into a short reference, and
\* such a URL.
IssuePattern ==
    << "^", "h", "t", "t", "p", "s", ":", "/", "/", "g", "i", "t", "h",
       "u", "b", "\\", ".", "c", "o", "m", "/", "[", "^", "/", "]", "+",
       "/", "(", "[", "^", "/", "]", "+", ")", "/", "i", "s", "s", "u",
       "e", "s", "/", "(", "\\", "d", "+", ")", "$" >>

IssueReplacer ==
    << "i", "s", "s", "u", "e", ":", "$", "1", "#", "$", "2" >>

IssueUrl ==
    << "h", "t", "t", "p", "s", ":", "/", "/", "g", "i", "t", "h", "u",
       "b", ".", "c", "o", "m", "/", "a", "c", "m", "e", "/", "w", "i",
       "d", "g", "e", "t", "s", "/", "i", "s", "s", "u", "e", "s", "/",
       "4", "2" >>

IssueRule == ReplaceRule(IssuePattern, IssueReplacer)

\* applyRules with the issue rule alone, on the issue URL.
IssueResult == applyRules(<< IssueRule >>, Str(IssueUrl))

\* s with every "ab" doubled, scanning from the left.
RECURSIVE DoubledAb(_)
DoubledAb(s) ==
    IF s = << >> THEN << >>
    ELSE IF Len(s) >= 2 /\ s[1] = "a" /\ s[2] = "b"
         THEN << "a", "b", "a", "b" >> \o DoubledAb(SubSeq(s, 3, Len(s)))
         ELSE << Head(s) >> \o DoubledAb(Tail(s))

\* s over {a, b} with each "a" turned into "[a]" and each "b" into "[]".
RECURSIVE Bracketed(_)
Bracketed(s) ==
    IF s = << >> THEN << >>
    ELSE (IF Head(s) = "a" THEN << "[", "a", "]" >> ELSE << "[", "]" >>)
         \o Bracketed(Tail(s))

\* s over {a, b} with an "X" for each maximal run of a's and an "X" for the
\* empty match before each "b" that follows no such run, after each run,
\* and at the end.
RECURSIVE Starred(_)
Starred(s) ==
    IF s = << >> THEN << "X" >>
    ELSE IF Head(s) = "b" THEN << "X", "b" >> \o Starred(Tail(s))
    ELSE IF Len(s) >= 2 /\ s[2] = "a" THEN Starred(Tail(s))
    ELSE IF Len(s) >= 2 THEN << "X", "X", "b" >> \o Starred(SubSeq(s, 3, Len(s)))
    ELSE << "X", "X" >>

\* C15: in the result of applyRules on a non-empty input, each match of the
\* winning rule's pattern is replaced by its template expanded: "$&" by the
\* matched text (ab -> $&$& doubles every "ab"), "$1" by the text of group
\* 1, or by nothing when the group took no part in the match ((a)|b -> [$1]
\* gives "[a]" for an "a" and "[]" for a "b"), and a template without
\* placeholders as it is, once per match, empty matches included; and the
\* issue rule turns the issue URL into "issue:widgets#42".
C15_PlaceholderExpansion ==
    /\ IssueResult = << "i", "s", "s", "u", "e", ":", "w", "i", "d", "g",
                        "e", "t", "s", "#", "4", "2" >>
    /\ (phase = "applied" /\ applied.source.kind = "string"
                          /\ applied.source.val # << >>
                          /\ MatchingRules(rules, applied.source.val) # {}) =>
          LET s == applied.source.val
              M == MatchingRules(rules, s)
              r == rules[CHOOSE k \in M : \A j \in M : k <= j]
          IN  CASE r.replacer = << "$", "&", "$", "&" >> ->
                      applied.result = DoubledAb(s)
                [] r.replacer = << "[", "$", "1", "]" >> ->
                      applied.result = Bracketed(s)
                [] r.pattern = << "a", "*" >> -> applied.result = Starred(s)
                [] r.pattern \in {<< "a" >>, << "b" >>} ->
                      applied.result = EachCharReplaced(s, r.pattern[1],
                                                        r.replacer)

\* "ab" under (a)|b -> [$1] gives "[a][]": group 1 took part in the first
\* match and not in the second.
C15_Witness ==
    /\ phase = "applied"
    /\ Len(rules) >= 1
    /\ rules[1].pattern = << "(", "a", ")", "|", "b" >>
    /\ applied.source = Str(<< "a", "b" >>)
    /\ applied.result = << "[", "a", "]", "[", "]" >>

(***************************************************************************)
(* Claims about saving and loading again, checked under Spec.              *)
(***************************************************************************)
\* What loadSettings leaves of the blob saveData(settings) writes.
Reloaded(s) == loadSettings(s, nextId)

SameRules(s, t) ==
    /\ t.patterns = s.patterns
    /\ t.replacers = s.replacers
    /\ t.links = s.links

\* C16: whatever settings the tab's handlers have produced, saving them and
\* running loadSettings on what was saved yields the same patterns,
\* replacers and links: no record wrapped again, no link added.
C16_SaveLoadRoundTrip ==
    (phase = "open" /\ handled >= 1) =>
        (~Reloaded(settings).raised /\ SameRules(settings, Reloaded(settings).s))

\* The round trip of settings that hold a pattern and a link is exact.
C16_RoundTripWithPatternAndLink ==
    (phase = "open" /\ handled >= 1 /\ Len(settings.patterns.items) > 0
       /\ Len(settings.links.items) > 0) =>
        (~Reloaded(settings).raised /\ SameRules(settings, Reloaded(settings).s))


(***************************************************************************)
(* Claims about the detection rule and the legacy branch, checked under    *)
(* SpecMigrate.                                                            *)
(***************************************************************************)
\* The saved blob has a links collection.
LinksPresent == data # Null /\ IsArray(data.links)

\* The detection rule as stated: patterns non-empty, the first a record and
\* not a raw string, links present.
StatedCurrent ==
    /\ IsArray(settings.patterns)
    /\ Len(settings.patterns.items) > 0
    /\ settings.patterns.items[1].kind = "object"
    /\ LinksPresent

\* The step is the first migrateIfNeeded of a saved blob.
FirstMigration == phase = "assigned" /\ phase' = "migrated" /\ data # Null

TookPath(out) ==
    settings' = out.s /\ nextId' = out.n /\ raisedErr' = out.raised

\* C17: migrateIfNeeded takes the current-generation path (identifiers
\* backfilled, links kept) exactly when the blob's patterns are non-empty,
\* the first pattern is a record and the links collection is present, and
\* the legacy path (patterns and replacers wrapped, links rebuilt from the
\* index-aligned pairs) for every other blob.
C17_DetectionRule ==
    [][FirstMigration =>
         IF StatedCurrent THEN TookPath(migrateNew(settings, nextId))
         ELSE TookPath(migrateLegacy(settings, nextId))]_vars

\* On a legacy blob, and on a blob that has its links and whose first pattern
\* is not null, the stated rule and the code's test agree.
C17_DetectionOfSavedGenerations ==
    [][(FirstMigration
          /\ (IsLegacyBlob(data)
                \/ (LinksPresent /\ (settings.patterns.items = << >>
                                       \/ settings.patterns.items[1] # Null)))) =>
         IF StatedCurrent THEN TookPath(migrateNew(settings, nextId))
         ELSE TookPath(migrateLegacy(settings, nextId))]_vars


\* The step is a call of normalizeDefaultsIfEmpty.
Normalizing ==
    phase \in {"migrated", "normalized"} /\ phase' \in {"normalized", "normalized2"}

\* links[i] joins patterns[i] to replacers[i], enabled, without a comment.
DefaultLink(s, i) ==
    /\ s.links.items[i].patternId = s.patterns.items[i].id
    /\ s.links.items[i].replacerId = s.replacers.items[i].id
    /\ s.links.items[i].enabled
    /\ s.links.items[i].comment = << >>

\* C18: normalizeDefaultsIfEmpty leaves patterns and replacers as they are;
\* with no link it creates min(|patterns|, |replacers|) links, the i-th
\* joining patterns[i] to replacers[i], enabled and without a comment; with
\* a link it changes nothing; and a second call adds no link.
C18_EnsureDefaults ==
    [][Normalizing =>
         /\ ~raisedErr'
         /\ settings'.patterns = settings.patterns
         /\ settings'.replacers = settings.replacers
         /\ IF ~IsArray(settings.links) \/ settings.links.items = << >>
            THEN /\ Len(settings'.links.items) =
                      Min(Len(settings.patterns.items),
                          Len(settings.replacers.items))
                 /\ \A i \in 1..Len(settings'.links.items) :
                       DefaultLink(settings', i)
            ELSE settings' = settings /\ nextId' = nextId
         /\ (phase = "normalized" =>
               Len(settings'.links.items) = Len(settings.links.items))]_vars

\* C18's case: a saved blob with two patterns, two replacers and no link
\* has been given its two links, and the pass has run again.
C18_Witness ==
    /\ phase = "normalized2"
    /\ data # Null
    /\ data.links = Arr(<< >>)
    /\ Len(settings.patterns.items) = 2
    /\ Len(settings.links.items) = 2
    /\ DefaultLink(settings, 2)


\* Every entry of xs is a record whose text is the entry of old at its
\* index and whose identifier uid(prefix) handed out during this load.
WrapsAll(xs, old, prefix) ==
    /\ Len(xs) = Len(old)
    /\ \A i \in 1..Len(xs) :
          /\ xs[i].kind = "object"
          /\ xs[i].text = old[i]
          /\ xs[i].id.prefix = prefix
          /\ xs[i].id.n >= FirstFreeId /\ xs[i].id.n < nextId
          /\ \A j \in 1..Len(xs) : xs[j].id = xs[i].id => j = i

\* C19: for a legacy blob with raw-string patterns P and replacers R of any
\* lengths, the migrated patterns are |P| records with patterns[i].text =
\* P[i] and the migrated replacers |R| records with replacers[i].text =
\* R[i], each with an identifier of its own generated by the migration.
C19_LegacyWrapping ==
    (phase = "migrated" /\ IsLegacyBlob(data)) =>
        /\ WrapsAll(settings.patterns.items, data.patterns.items, "p")
        /\ WrapsAll(settings.replacers.items, data.replacers.items, "r")

\* C19's case: two patterns and one replacer, all three wrapped.
C19_Witness ==
    /\ phase = "migrated"
    /\ IsLegacyBlob(data)
    /\ Len(data.patterns.items) = 2 /\ Len(data.replacers.items) = 1
    /\ Len(settings.patterns.items) = 2 /\ Len(settings.replacers.items) = 1
    /\ settings.patterns.items[2].text = data.patterns.items[2]
    /\ data.enabled = Undefined /\ data.comments = Undefined

UniqueIds(items) ==
    \A i, j \in 1..Len(items) : items[i].id = items[j].id => i = j

C21_UniqueAfterLoad ==
    (phase \in {"migrated", "normalized"} /\ ~raisedErr) =>
        /\ UniqueIds(settings.patterns.items)
        /\ UniqueIds(settings.replacers.items)


(***************************************************************************)
(* SpecFair: the plugin's loading and the settings tab with the timers     *)
(* running out and the awaited saves completing: a pending setTimeout      *)
(* callback and a pending continuation are not postponed for ever.  The    *)
(* user's events are under no obligation.  Paste events and the Try rules  *)
(* box, which read the settings and the rules and write neither, are left  *)
(* out.                                                                    *)
(***************************************************************************)
NextFair ==
    \/ LoadSettings
    \/ Display
    \/ AddItem
    \/ CommitEdit
    \/ DeleteItem
    \/ LinkClick
    \/ RemoveLink
    \/ ToggleLink
    \/ MiniToggle
    \/ CommentEdit
    \/ toggleActive
    \/ DebounceFire
    \/ ResumeRender
    \/ ResumeDraw
    \/ ResumeDrawMini
    \/ ResumeCompile
    \/ DrawTimer
    \/ Resize

SpecFair ==
    /\ Init
    /\ [][NextFair]_vars
    /\ WF_vars(DebounceFire)
    /\ WF_vars(DrawTimer)
    /\ WF_vars(ResumeRender)
    /\ WF_vars(ResumeDraw)
    /\ WF_vars(ResumeDrawMini)
    /\ WF_vars(ResumeCompile)

\* No save awaited and no debounce timer pending.
Settled == tasks = NoTasks /\ ~debTimer

\* this.rules is what compileRules gives for the settings.
Compiled ==
    phase \in {"loaded", "open"} => rules = compileRules(settings).rules

\* A step that changes the settings.
Edits == settings' # settings

\* C22: once no further edit occurs, the pending saves complete and the
\* debounce timer runs out, and from then on the compiled rule list is
\* compileRules of the current patterns, replacers and links.
C22_EventualRecompilation ==
    <>[][~Edits]_vars => <>[](Settled /\ Compiled)

\* Whenever nothing is pending the rule list is the compiled settings.
C22_SettledIsCompiled == Settled => Compiled

\* C22's case: a replacer added and linked to the saved pattern; the
\* debounced save has completed and both rules are compiled.
C22_Witness ==
    /\ phase = "open"
    /\ handled = 2
    /\ Settled
    /\ Len(settings.links.items) = 2
    /\ Len(rules) = 2


(***************************************************************************)
(* Claims about onPaste, checked under Spec.                               *)
(***************************************************************************)
\* onPaste itself prevented the default paste.
PreventedByOnPaste ==
    event.defaultPrevented /\ ~event.ev.defaultPrevented

\* onPaste put nothing into an editor and left defaultPrevented as it came.
PasteUntouched ==
    event.inserted = Undefined
    /\ event.defaultPrevented = event.ev.defaultPrevented

\* C23: onPaste prevents the default paste only when it has put the
\* transformed text into an editor; an event that was already prevented,
\* whose types are not exactly text/plain, whose text is empty, whose
\* transformed text equals the clipboard text, or that finds no editor, gets
\* no text inserted and is not prevented by onPaste.
C23_PasteNeverLost ==
    event.kind = "paste" =>
        /\ PreventedByOnPaste =>
              /\ applied.kind = "call"
              /\ applied.source = event.ev.text
              /\ event.inserted = Str(applied.result)
              /\ event.ev.editor # "none"
        /\ (\/ event.ev.defaultPrevented
            \/ event.ev.types # << "text/plain" >>
            \/ event.ev.text = Str(<< >>)
            \/ (applied.kind = "call" /\ Str(applied.result) = event.ev.text)
            \/ event.ev.editor = "none") => PasteUntouched

\* C23's case: a paste that the rules transform and no editor to put it in.
C23_Witness ==
    /\ event.kind = "paste"
    /\ event.ev.editor = "none"
    /\ applied.kind = "call"
    /\ Str(applied.result) # event.ev.text
    /\ PasteUntouched

=============================================================================
